---- MODULE Spec2Model ----
(***************************************************************************)
(* Model of the bigint crate (src/src/lib.rs): the BigInt value type with  *)
(* its constructors zero, one, from_i64, the private normalize, and the    *)
(* free function add on u64.                                               *)
(*                                                                         *)
(* Machine integers (i64, u64) are 64-bit patterns, written as sequences   *)
(* of 64 bits, least significant bit first; all arithmetic on them is done *)
(* bit by bit so that the 64-bit width, the two's complement sign and the  *)
(* carry out of bit 63 are explicit.  Limbs (u32 values below 2^31) are    *)
(* natural numbers.                                                        *)
(***************************************************************************)
EXTENDS Naturals, Sequences, FiniteSets

\* src/src/lib.rs:1
BASE == 1000000000

\* width of i64 and u64, and its binary logarithm
Width == 64
LogWidth == 6

(***************************************************************************)
(* Bounds of the model.                                                    *)
(***************************************************************************)
\* from_i64 is called on 2^k + d and 2^k - d (mod 2^64) for d \in 0..MaxDelta
MaxDelta == 1
\* ... and on a*BASE^2 + b*BASE + c with a \in 0..MaxTopLimb
MaxTopLimb == 9
\* normalize is called on limb sequences of length 0..MaxLen
MaxLen == 3

(***************************************************************************)
(* Natural numbers of any size as bit sequences, least significant bit     *)
(* first, without high zero bits.  The operators recurse by halving the    *)
(* range of bit positions they work on.                                    *)
(***************************************************************************)
RECURSIVE Zeros(_)
Zeros(n) ==
    IF n = 0 THEN <<>>
    ELSE IF n = 1 THEN <<0>>
    ELSE Zeros(n \div 2) \o Zeros(n - n \div 2)

BitAt(a, i) == IF i <= Len(a) THEN a[i] ELSE 0

\* a without its high zero bits
RECURSIVE Trim(_)
Trim(a) ==
    IF Len(a) = 0 THEN <<>>
    ELSE IF Len(a) = 1 THEN (IF a[1] = 0 THEN <<>> ELSE <<1>>)
    ELSE LET m  == Len(a) \div 2
             hi == Trim(SubSeq(a, m + 1, Len(a)))
         IN  IF hi = <<>> THEN Trim(SubSeq(a, 1, m)) ELSE SubSeq(a, 1, m) \o hi

\* the bits of a natural number below 2^31
RECURSIVE NatBits(_)
NatBits(n) == IF n = 0 THEN <<>> ELSE <<n % 2>> \o NatBits(n \div 2)

\* bits lo..hi of a + b + c, and the carry out of bit hi
RECURSIVE AddRange(_, _, _, _, _)
AddRange(a, b, lo, hi, c) ==
    IF lo = hi
    THEN LET t == BitAt(a, lo) + BitAt(b, lo) + c
         IN  [s |-> <<t % 2>>, c |-> t \div 2]
    ELSE LET m    == (lo + hi) \div 2
             low  == AddRange(a, b, lo, m, c)
             high == AddRange(a, b, m + 1, hi, low.c)
         IN  [s |-> low.s \o high.s, c |-> high.c]

NatAdd(a, b) ==
    LET n == IF Len(a) > Len(b) THEN Len(a) ELSE Len(b)
        r == AddRange(a, b, 1, n, 0)
    IN  IF n = 0 THEN <<>> ELSE Trim(r.s \o <<r.c>>)

\* a times bits lo..hi of b, in place
RECURSIVE MulRange(_, _, _, _)
MulRange(a, b, lo, hi) ==
    IF lo = hi THEN (IF b[lo] = 1 THEN Zeros(lo - 1) \o a ELSE <<>>)
    ELSE NatAdd(MulRange(a, b, lo, (lo + hi) \div 2),
                MulRange(a, b, (lo + hi) \div 2 + 1, hi))

NatMul(a, b) ==
    IF a = <<>> \/ b = <<>> THEN <<>> ELSE MulRange(a, b, 1, Len(b))

\* the bits of a hexadecimal numeral hs, most significant digit first
RECURSIVE HexBits(_)
HexBits(hs) ==
    IF hs = <<>> THEN <<>>
    ELSE LET h == hs[Len(hs)]
         IN  <<h % 2, (h \div 2) % 2, (h \div 4) % 2, h \div 8>>
                 \o HexBits(SubSeq(hs, 1, Len(hs) - 1))

Hex(hs) == Trim(HexBits(hs))

(***************************************************************************)
(* 64-bit machine words.                                                   *)
(***************************************************************************)
\* the low 64 bits of a natural number: the u64 (or i64) holding it mod 2^64
Word(a) == SubSeq(a \o Zeros(Width), 1, Width)

ZeroWord == Word(<<>>)

\* a < b for u64
WordLess(a, b) ==
    \E i \in 1..Width : a[i] < b[i] /\ \A j \in (i + 1)..Width : a[j] = b[j]

\* v < 0 for an i64: the sign bit
IsNegative(v) == v[Width] = 1

\* every bit of a inverted
RECURSIVE Invert(_)
Invert(a) ==
    IF Len(a) = 0 THEN <<>>
    ELSE IF Len(a) = 1 THEN <<1 - a[1]>>
    ELSE Invert(SubSeq(a, 1, Len(a) \div 2))
             \o Invert(SubSeq(a, Len(a) \div 2 + 1, Len(a)))

\* 0 - v mod 2^64: invert every bit, add one, drop the carry out
WrappingNeg(v) == AddRange(Invert(v), <<>>, 1, Width, 1).s

\* i64::MAX, 2^63 - 1, as a bit pattern
I64Max == Invert(Zeros(Width - 1)) \o <<0>>

\* a plain cast `v as u64` in place of unsigned_abs
UnsignedAbsCast(v) == v

\* `v.saturating_abs() as u64` in place of unsigned_abs
UnsignedAbsSaturating(v) ==
    IF ~IsNegative(v) THEN v
    ELSE IF WrappingNeg(v) = v THEN I64Max
    ELSE WrappingNeg(v)

\* i64::unsigned_abs (src/src/lib.rs:27)
UnsignedAbs(v) == IF IsNegative(v) THEN WrappingNeg(v) ELSE v

\* the only element of a one-element set
Only(S) == CHOOSE e \in S : TRUE

\* long division of the u64 x by d (0 < d < 2^30) over the 2^k bits from
\* lo + 2^k - 1 down to lo, with r the remainder left by the bits above them:
\* q is the quotient's bits lo..lo + 2^k - 1 and r the remainder.
\* The two halves are bound as set elements, so that each is computed once.
RECURSIVE LongDiv(_, _, _, _, _)
LongDiv(x, d, lo, k, r) ==
    IF k = 0
    THEN Only({[q |-> <<t \div d>>, r |-> t % d] : t \in {2 * r + x[lo]}})
    ELSE Only({Only({[q |-> bot.q \o top.q, r |-> bot.r] :
                        bot \in {LongDiv(x, d, lo, k - 1, top.r)}}) :
                  top \in {LongDiv(x, d, lo + 2 ^ (k - 1), k - 1, r)}})

\* x left as it is, the division forgotten
QuotKeep(x) == x

\* x / BASE (src/src/lib.rs:32)
Quot(x) == LongDiv(x, BASE, 1, LogWidth, 0).q

\* x % (BASE + 1), the modulus off by one
RemOffByOne(x) == LongDiv(x, BASE + 1, 1, LogWidth, 0).r

\* the limb taken after the division, (x / BASE) % BASE
RemAfterDiv(x) == LongDiv(Quot(x), BASE, 1, LogWidth, 0).r

\* x % BASE (src/src/lib.rs:31)
Rem(x) == LongDiv(x, BASE, 1, LogWidth, 0).r

\* `as u32` of a u64 below 2^31: its low 32 bits, as two 16-bit halves
AsU32(n) == (((n \div 65536) % 65536) * 65536) + (n % 65536)

(***************************************************************************)
(* The BigInt value type.                                                  *)
(***************************************************************************)
\* struct BigInt { neg, digits }
BigInt(n, ds) == [neg |-> n, digits |-> ds]

\* BigInt::zero()
zero == BigInt(FALSE, <<>>)

\* BigInt::one()
one == BigInt(FALSE, <<1>>)

\* digits.last().map_or(false, |&d| d == 0): the condition of normalize's loop
LastIsZero(ds) == ds # <<>> /\ ds[Len(ds)] = 0

\* the first limb removed in place of the last
PopFront(ds) == Tail(ds)

\* digits.pop()
Pop(ds) == SubSeq(ds, 1, Len(ds) - 1)

\* the sign of an empty value flipped
FixSignToggle(b) == IF b.digits = <<>> THEN [neg |-> ~b.neg, digits |-> b.digits] ELSE b

\* the sign left as it is
FixSignSkip(b) == b

\* the sign cleared whatever the limbs
FixSignAlways(b) == [neg |-> FALSE, digits |-> b.digits]

\* if self.digits.is_empty() { self.neg = false }
FixSign(b) == IF b.digits = <<>> THEN BigInt(FALSE, b.digits) ELSE b

(***************************************************************************)
(* Inputs.                                                                 *)
(***************************************************************************)
\* limb values the inputs are built from
LimbValues == {0, 1, BASE - 1}

RECURSIVE SeqsUpTo(_, _)
SeqsUpTo(S, n) ==
    IF n = 0 THEN {<<>>}
    ELSE LET shorter == SeqsUpTo(S, n - 1)
         IN  shorter \cup {Append(q, e) : q \in shorter, e \in S}

\* the values normalize is called on
BigIntInputs == {BigInt(n, ds) : n \in BOOLEAN, ds \in SeqsUpTo(LimbValues, MaxLen)}

\* 2^k
Pow2(k) == Zeros(k) \o <<1>>

\* the argument of the repository's test tests::from_i64, 1002323809800980
TestValue == Hex(<<3, 8, 15, 9, 11, 11, 2, 10, 2, 1, 3, 1, 4>>)

\* i64::MIN, -2^63, as a bit pattern
I64Min == Word(Pow2(Width - 1))

PositivePatterns ==
    {Word(NatAdd(Pow2(k), NatBits(d))) : k \in 0..(Width - 1), d \in 0..MaxDelta}
    \cup {Word(NatAdd(Pow2(k), WrappingNeg(Word(NatBits(d))))) :
              k \in 0..(Width - 1), d \in 0..MaxDelta}
    \cup {Word(NatAdd(NatMul(NatAdd(NatMul(NatBits(a), NatBits(BASE)), NatBits(b)),
                             NatBits(BASE)), NatBits(c))) :
              a \in 0..MaxTopLimb, b \in LimbValues, c \in LimbValues}
    \cup {Word(TestValue)}

\* the i64 values from_i64 is called on
I64Inputs == PositivePatterns \cup {WrappingNeg(p) : p \in PositivePatterns}

KeptPatterns ==
    {Word(NatBits(1)), Word(NatBits(BASE - 1)), Word(NatBits(BASE)),
     Word(NatMul(NatBits(BASE), NatBits(BASE))), Word(TestValue),
     Word(Pow2(Width - 2)), I64Max}

\* the i64 values whose result the caller may keep: 0, 1, BASE - 1, BASE,
\* BASE^2, the test's value, 2^62 and i64::MAX, with their negations, and
\* i64::MIN
KeptInputs ==
    KeptPatterns \cup {WrappingNeg(p) : p \in KeptPatterns} \cup {ZeroWord, I64Min}

\* the u64 values add is called on
U64Inputs ==
    {ZeroWord, Word(NatBits(1)), Word(NatBits(2)), I64Min,
     WrappingNeg(Word(NatBits(1))), WrappingNeg(Word(NatBits(2)))}

(***************************************************************************)
(* State.                                                                  *)
(***************************************************************************)
VARIABLES
    pc,      \* where the program is: "idle", "from_i64_loop",
             \* "normalize_loop", "done", "panic"
    op,      \* the public operation being executed or last returned
    v,       \* from_i64: the argument
    x,       \* from_i64: the local x
    digits,  \* from_i64: the local digits
    self,    \* normalize: the value being normalized
    arg,     \* normalize: the value it was called on
    src,     \* normalize: which operation produced the value it was called on
    iters,   \* executions of the body of the loop being run
    ret,     \* the BigInt returned
    left,    \* add: the arguments
    right,
    sum,     \* add: the u64 returned
    kept     \* an earlier from_i64 call the caller has kept: its argument
             \* and its result, or NoCall

vars == <<pc, op, v, x, digits, self, arg, src, iters, ret, left, right, sum,
          kept>>

NoCall == [called |-> FALSE]

Init ==
    /\ pc = "idle"
    /\ op = "none"
    /\ v = ZeroWord
    /\ x = ZeroWord
    /\ digits = <<>>
    /\ self = zero
    /\ arg = zero
    /\ src = "none"
    /\ iters = 0
    /\ ret = zero
    /\ left = ZeroWord
    /\ right = ZeroWord
    /\ sum = ZeroWord
    /\ kept = NoCall

\* the locals of the operations that are not running
NoFromI64 == v' = ZeroWord /\ x' = ZeroWord /\ digits' = <<>>
NoNormalize == self' = zero /\ arg' = zero /\ src' = "none"
NoAdd == left' = ZeroWord /\ right' = ZeroWord /\ sum' = ZeroWord

(***************************************************************************)
(* Operations.                                                             *)
(***************************************************************************)
\* BigInt::zero()
Zero ==
    /\ pc = "idle"
    /\ pc' = "done" /\ op' = "zero" /\ ret' = zero /\ iters' = 0
    /\ NoFromI64 /\ NoNormalize /\ NoAdd /\ UNCHANGED kept

\* BigInt::one()
One ==
    /\ pc = "idle"
    /\ pc' = "done" /\ op' = "one" /\ ret' = one /\ iters' = 0
    /\ NoFromI64 /\ NoNormalize /\ NoAdd /\ UNCHANGED kept

\* BigInt::from_i64(v), up to the loop: the early return for zero, or x and
\* digits initialised
FromI64 ==
    /\ pc = "idle"
    /\ \E w \in I64Inputs :
        /\ v' = w
        /\ IF w = ZeroWord
           THEN pc' = "done" /\ ret' = zero /\ x' = ZeroWord
           ELSE pc' = "from_i64_loop" /\ ret' = zero /\ x' = UnsignedAbs(w)
    /\ op' = "from_i64" /\ digits' = <<>> /\ iters' = 0
    /\ NoNormalize /\ NoAdd /\ UNCHANGED kept

\* the body of from_i64's loop, while x > 0
FromI64Loop ==
    /\ pc = "from_i64_loop"
    /\ x # ZeroWord
    /\ digits' = Append(digits, AsU32(Rem(x)))
    /\ x' = Quot(x)
    /\ iters' = iters + 1
    /\ UNCHANGED <<pc, op, v, self, arg, src, ret, left, right, sum, kept>>

\* from_i64 after the loop: Self { neg: v < 0, digits }.normalize() is entered
FromI64Normalize ==
    /\ pc = "from_i64_loop"
    /\ x = ZeroWord
    /\ self' = BigInt(IsNegative(v), digits)
    /\ arg' = BigInt(IsNegative(v), digits)
    /\ src' = "from_i64"
    /\ pc' = "normalize_loop"
    /\ iters' = 0
    /\ UNCHANGED <<op, v, x, digits, ret, left, right, sum, kept>>

\* normalize called on a value built by the caller
Normalize ==
    /\ pc = "idle"
    /\ \E b \in BigIntInputs : self' = b /\ arg' = b
    /\ src' = "caller"
    /\ pc' = "normalize_loop" /\ op' = "normalize" /\ iters' = 0
    /\ ret' = zero
    /\ NoFromI64 /\ NoAdd /\ UNCHANGED kept

\* normalize called on the value the last operation returned
NormalizeAgain ==
    /\ pc = "done"
    /\ op \in {"zero", "one", "from_i64", "normalize"}
    /\ self' = ret /\ arg' = ret
    /\ src' = op
    /\ pc' = "normalize_loop" /\ op' = "normalize" /\ iters' = 0
    /\ ret' = zero
    /\ NoFromI64 /\ NoAdd /\ UNCHANGED kept

\* the body of normalize's loop, while the last limb is zero
NormalizeLoop ==
    /\ pc = "normalize_loop"
    /\ LastIsZero(self.digits)
    /\ self' = BigInt(self.neg, Pop(self.digits))
    /\ iters' = iters + 1
    /\ UNCHANGED <<pc, op, v, x, digits, arg, src, ret, left, right, sum, kept>>

\* normalize after the loop: the sign of an empty value is cleared and self
\* is returned (to the caller, or out of from_i64)
NormalizeReturn ==
    /\ pc = "normalize_loop"
    /\ ~LastIsZero(self.digits)
    /\ self' = FixSign(self)
    /\ ret' = FixSign(self)
    /\ pc' = "done"
    /\ UNCHANGED <<op, v, x, digits, arg, src, iters, left, right, sum, kept>>

\* add(left, right) when left + right fits in a u64
Add ==
    /\ pc = "idle"
    /\ \E l \in U64Inputs, r \in U64Inputs :
        /\ AddRange(l, r, 1, Width, 0).c = 0
        /\ left' = l /\ right' = r
        /\ sum' = AddRange(l, r, 1, Width, 0).s
    /\ pc' = "done" /\ op' = "add" /\ ret' = zero /\ iters' = 0
    /\ NoFromI64 /\ NoNormalize /\ UNCHANGED kept

\* add(left, right) when left + right does not fit in a u64, built with
\* overflow checks (the default of debug builds): the addition panics
AddPanic ==
    /\ pc = "idle"
    /\ \E l \in U64Inputs, r \in U64Inputs :
        /\ AddRange(l, r, 1, Width, 0).c = 1
        /\ left' = l /\ right' = r
    /\ sum' = ZeroWord
    /\ pc' = "panic" /\ op' = "add" /\ ret' = zero /\ iters' = 0
    /\ NoFromI64 /\ NoNormalize /\ UNCHANGED kept

\* add(left, right) when left + right does not fit in a u64, built without
\* overflow checks (the default of release builds): the sum wraps
AddWrap ==
    /\ pc = "idle"
    /\ \E l \in U64Inputs, r \in U64Inputs :
        /\ AddRange(l, r, 1, Width, 0).c = 1
        /\ left' = l /\ right' = r
        /\ sum' = AddRange(l, r, 1, Width, 0).s
    /\ pc' = "done" /\ op' = "add" /\ ret' = zero /\ iters' = 0
    /\ NoFromI64 /\ NoNormalize /\ UNCHANGED kept

\* the caller is done with the result
Return ==
    /\ pc = "done"
    /\ pc' = "idle" /\ op' = "none" /\ ret' = zero /\ iters' = 0
    /\ NoFromI64 /\ NoNormalize /\ NoAdd /\ UNCHANGED kept

\* the caller keeps the value from_i64 returned, to compare it with a later one
Keep ==
    /\ pc = "done"
    /\ op = "from_i64"
    /\ v \in KeptInputs
    /\ kept' = [called |-> TRUE, v |-> v, ret |-> ret]
    /\ UNCHANGED <<pc, op, v, x, digits, self, arg, src, iters, ret, left,
                   right, sum>>

Next ==
    \/ Zero
    \/ One
    \/ FromI64
    \/ FromI64Loop
    \/ FromI64Normalize
    \/ Normalize
    \/ NormalizeAgain
    \/ NormalizeLoop
    \/ NormalizeReturn
    \/ Add
    \/ AddPanic
    \/ AddWrap
    \/ Return

Spec == Init /\ [][Next]_vars

\* a running operation takes its next step
FairSpec ==
    Spec /\ WF_vars(FromI64Loop) /\ WF_vars(FromI64Normalize)
         /\ WF_vars(NormalizeLoop) /\ WF_vars(NormalizeReturn)

NextKeep == Next \/ Keep

\* the operations, with a caller that keeps a result of from_i64
PairSpec == Init /\ [][NextKeep]_vars

(***************************************************************************)
(* Properties.                                                             *)
(***************************************************************************)
\* the number the limbs ds stand for, sum of ds[i] * BASE^(i-1), in bits
RECURSIVE Value(_)
Value(ds) ==
    IF ds = <<>> THEN <<>>
    ELSE NatAdd(NatBits(ds[1]), NatMul(Value(Tail(ds)), NatBits(BASE)))

\* the three representation invariants of a BigInt
NoTrailingZero(b) == b.digits # <<>> => b.digits[Len(b.digits)] # 0
NoNegativeZero(b) == b.digits = <<>> => ~b.neg
LimbsInRange(b) == \A i \in 1..Len(b.digits) : b.digits[i] \in 0..(BASE - 1)
Invariants(b) == NoTrailingZero(b) /\ NoNegativeZero(b) /\ LimbsInRange(b)

\* from_i64 has returned
FromI64Done == pc = "done" /\ op = "from_i64"

\* normalize has returned, whether called directly or by from_i64
NormalizeDone == pc = "done" /\ src # "none"

\* C1: from_i64(v) returns neg = (v < 0) and limbs whose value is |v|: the
\* value itself for v >= 0, and the number that added to the pattern of v
\* gives 2^64 for v < 0; from_i64(1002323809800980) has the limbs
\* [809800980, 1002323]
FromI64Value ==
    FromI64Done =>
        /\ ret.neg = IsNegative(v)
        /\ IF IsNegative(v)
           THEN NatAdd(Value(ret.digits), Trim(v)) = Pow2(Width)
           ELSE Value(ret.digits) = Trim(v)
        /\ v = Word(TestValue) => ret.digits = <<809800980, 1002323>>

FromI64ValueWitness ==
    /\ FromI64Done
    /\ v = Word(TestValue)
    /\ ret = BigInt(FALSE, <<809800980, 1002323>>)

\* C2: every BigInt returned by zero, one or from_i64 has a nonzero most
\* significant limb, is not a negative zero, and has its limbs in [0, BASE)
ConstructorsInvariant ==
    (pc = "done" /\ op \in {"zero", "one", "from_i64"}) => Invariants(ret)

ConstructorsInvariantWitness ==
    /\ FromI64Done
    /\ ret.neg
    /\ Len(ret.digits) = 3
    /\ ret.digits[1] = BASE - 1

\* C3: normalize returns the limbs without the trailing zero limbs, the other
\* limbs unchanged and in place, with the sign cleared if no limb is left and
\* unchanged otherwise; it never fails
NormalizeStrips ==
    /\ NormalizeDone =>
        /\ \E n \in 0..Len(arg.digits) :
            /\ ret.digits = SubSeq(arg.digits, 1, n)
            /\ n > 0 => arg.digits[n] # 0
            /\ \A i \in (n + 1)..Len(arg.digits) : arg.digits[i] = 0
        /\ ret.neg = (IF ret.digits = <<>> THEN FALSE ELSE arg.neg)
    /\ src # "none" => pc # "panic"

NormalizeStripsWitness ==
    /\ NormalizeDone
    /\ arg = BigInt(TRUE, <<0, 1, 0>>)
    /\ ret = BigInt(TRUE, <<0, 1>>)

\* C4: normalize applied to a value normalize returned, or to a value that
\* satisfies the representation invariants, returns that value
NormalizeIdempotent ==
    NormalizeDone =>
        /\ src = "normalize" => ret = arg
        /\ Invariants(arg) => ret = arg

NormalizeIdempotentWitness ==
    /\ NormalizeDone
    /\ src = "normalize"
    /\ arg = BigInt(TRUE, <<0, 1>>)
    /\ ret = arg

\* C5: from_i64(0) is zero(); normalize of a negative value whose limbs are
\* all zero is zero(); no constructor returns an empty value with neg set
CanonicalZero ==
    /\ (FromI64Done /\ v = ZeroWord) => ret = zero
    /\ (NormalizeDone /\ arg.neg /\ \A i \in 1..Len(arg.digits) : arg.digits[i] = 0)
           => ret = zero
    /\ (pc = "done" /\ op \in {"zero", "one", "from_i64"})
           => ~(ret.digits = <<>> /\ ret.neg)

CanonicalZeroWitness ==
    /\ NormalizeDone
    /\ arg = BigInt(TRUE, <<0, 0>>)
    /\ ret = zero

\* C6: from_i64(i64::MIN) returns neg = true and the limbs
\* [854775808, 223372036, 9], whose value is 2^63; from_i64 does not panic
\* and its x stays a u64
FromI64Min ==
    /\ op = "from_i64" => (pc # "panic" /\ Len(x) = Width)
    /\ (FromI64Done /\ v = I64Min) =>
        /\ ret = BigInt(TRUE, <<854775808, 223372036, 9>>)
        /\ Value(ret.digits) = Pow2(Width - 1)

FromI64MinWitness ==
    /\ FromI64Done
    /\ v = I64Min
    /\ ret.neg
    /\ Len(ret.digits) = 3

\* C7: add never fails and returns the exact sum left + right
AddExact ==
    op = "add" =>
        /\ pc # "panic"
        /\ pc = "done" => Trim(sum) = NatAdd(Trim(left), Trim(right))

\* C8: the loops terminate: every running operation returns, x decreases in
\* every iteration of from_i64's loop, which runs at most 3 times, and
\* normalize's loop runs at most len(digits) times
LoopsTerminate ==
    /\ (pc \in {"from_i64_loop", "normalize_loop"}) ~> (pc = "done")
    /\ [][(pc = "from_i64_loop" /\ pc' = "from_i64_loop") => WordLess(x', x)]_vars
    /\ [](pc = "from_i64_loop" => (iters <= 3 /\ Len(digits) = iters))
    /\ [](src # "none" => iters <= Len(arg.digits))

LoopsTerminateWitness ==
    /\ FromI64Done
    /\ src = "from_i64"
    /\ Len(digits) = 3
    /\ x = ZeroWord

\* C9: for v # 0 the limbs from_i64's loop produces end in a nonzero limb, so
\* that normalize removes no limb and returns the value it was given; for
\* v = 0 from_i64 returns before normalize
FromI64AlreadyNormal ==
    /\ (src = "from_i64" /\ op = "from_i64") =>
        /\ v # ZeroWord
        /\ arg.digits # <<>> /\ arg.digits[Len(arg.digits)] # 0
        /\ iters = 0
        /\ self = arg
        /\ pc = "done" => ret = arg
    /\ (FromI64Done /\ v = ZeroWord) => src = "none"

FromI64AlreadyNormalWitness ==
    /\ FromI64Done
    /\ src = "from_i64"
    /\ arg.digits = <<0, 0, 1>>
    /\ ret = arg

\* C10: two calls of from_i64 return the same sign and limbs if and only if
\* their arguments are equal
FromI64Injective ==
    (FromI64Done /\ kept.called) => ((ret = kept.ret) <=> (v = kept.v))

FromI64InjectiveWitness ==
    /\ FromI64Done
    /\ kept.called
    /\ kept.v = Word(NatBits(1))
    /\ v = WrappingNeg(Word(NatBits(1)))
    /\ ret.digits = kept.ret.digits
    /\ ret # kept.ret

====
